---- MODULE Spec2Model ----
(***************************************************************************)
(* xautocfg: sets the X keyboard repeat rate whenever a keyboard is        *)
(* enabled, and runs hook scripts.  src/xautocfg.cpp holds two revisions   *)
(* of the program: the current one (lines 1-363, hooks on_connect /        *)
(* on_disconnect in [keyboard], run through exec_script) and the           *)
(* scripts-section variant (lines 365-710, hooks on_enable / on_disable in *)
(* [scripts], run through system()).  The variable `variant` says which    *)
(* revision a behaviour is a run of.                                       *)
(*                                                                         *)
(* Strings the program inspects character by character (config lines,      *)
(* keys, values, the XINPUTID value) are sequences of one-character        *)
(* strings.                                                                *)
(***************************************************************************)
EXTENDS Integers, Sequences, FiniteSets, TLC

VARIABLES
    variant,          \* "current" | "scripts": the revision that runs
    argv,             \* the command line: [help, config, extra]
    home,             \* getenv("HOME"): a string, or NoHome
    fileOpens,        \* whether std::ifstream can open args.config
    file,             \* the lines of the config file
    exec_can_fail,    \* whether execlp of /bin/sh can fail in this environment
    args,             \* struct args as parse_args returns it
    linenr,           \* parse_config's linenr: the number of lines read
    current_section,  \* parse_config's current_section
    cfg,              \* struct config (ret in parse_config, cfg in main)
    diag,             \* the last diagnostic the root process printed
    status,           \* how the root process ended: "running", "exit0", ...
    display,          \* what XOpenDisplay returned: "unopened", "null", "open"
    eventMask,        \* TRUE once XISelectEvents selected XI_HierarchyChanged
    nrecv,            \* number of events XNextEvent has delivered so far
    pc,               \* pc[p]: where process p is
    proc,             \* proc[p]: the loop state and fork relations of process p
    xlog,             \* per process, what it did for the record it is handling
    xkb_core          \* the XkbSetAutoRepeatRate calls made on XkbUseCoreKbd

vars == <<variant, argv, home, fileOpens, file, exec_can_fail, args, linenr,
          current_section, cfg, diag, status, display, eventMask, nrecv, pc, proc, xlog,
          xkb_core>>

-----------------------------------------------------------------------------
(* Bounds of the model *)

\* number of lines of a generated config file (ParseSpec)
MaxLines == 3
\* largest `rate` value written into a generated config file (ParseSpec)
MaxRate == 1100
\* number of events XNextEvent delivers in one behaviour
MaxEvents == 2
\* number of info records of one hierarchy event
MaxInfo == 2
\* size of the process table: the root process and MaxProcs - 1 children
MaxProcs == 2

-----------------------------------------------------------------------------
(* Strings *)

s_keyboard == <<"k","e","y","b","o","a","r","d">>
s_scripts == <<"s","c","r","i","p","t","s">>
s_delay == <<"d","e","l","a","y">>
s_rate == <<"r","a","t","e">>
s_on_connect == <<"o","n","_","c","o","n","n","e","c","t">>
s_on_disconnect == <<"o","n","_","d","i","s","c","o","n","n","e","c","t">>
s_on_enable == <<"o","n","_","e","n","a","b","l","e">>
s_on_disable == <<"o","n","_","d","i","s","a","b","l","e">>
s_XINPUTID == <<"X","I","N","P","U","T","I","D">>

Digits == <<"0","1","2","3","4","5","6","7","8","9">>

IsDigit(c) == \E d \in 1..10 : Digits[d] = c

DigitVal(c) == (CHOOSE d \in 1..10 : Digits[d] = c) - 1

\* std::isspace in the "C" locale
IsSpace(c) == c \in {" ", "\t", "\n", "\r", "\f"}

\* ECMAScript `.`: any character but a line terminator
Dot(c) == c \notin {"\n", "\r"}

Min(S) == CHOOSE x \in S : \A y \in S : x <= y

\* s without its first n characters
Drop(s, n) == SubSeq(s, n + 1, Len(s))

\* length of the longest prefix of s whose characters all satisfy P
PrefixLen(s, P(_)) ==
    Min({i \in 0..Len(s) : i = Len(s) \/ ~P(s[i + 1])})

RECURSIVE DecValue(_)
\* the number a run of decimal digits denotes
DecValue(ds) ==
    IF ds = <<>> THEN 0
    ELSE 10 * DecValue(SubSeq(ds, 1, Len(ds) - 1)) + DigitVal(ds[Len(ds)])

RECURSIVE ToDecimalNat(_)
ToDecimalNat(n) ==
    IF n < 10 THEN <<Digits[n + 1]>>
    ELSE ToDecimalNat(n \div 10) \o <<Digits[(n % 10) + 1]>>

\* std::format("{}", n) for an int n
ToDecimal(n) == IF n < 0 THEN <<"-">> \o ToDecimalNat(-n) ELSE ToDecimalNat(n)

-----------------------------------------------------------------------------
(* struct config and its defaults *)

DefaultDelay == 200
DefaultInterval == 20

\* struct config: keyboard.{delay, interval} in both revisions; the hooks are
\* keyboard.{on_connect, on_disconnect} in the current revision and
\* scripts.{on_enable, on_disable} in the scripts variant.
DefaultConfig ==
    [delay |-> DefaultDelay, interval |-> DefaultInterval,
     on_connect |-> <<>>, on_disconnect |-> <<>>,
     on_enable |-> <<>>, on_disable |-> <<>>]

\* getenv("HOME") returned a null pointer
NoHome == "unset"

\* A diagnostic: the message and the line number it prints: <<n>>, or <<>>
\* when the message names no line.
NoDiag == [msg |-> "", line |-> <<>>]

-----------------------------------------------------------------------------
(* Conversions of parse_config_entry *)

\* std::istringstream >> uint32_t: skips white space and reads the longest run
\* of digits.  When only white space is left nothing is stored (stored =
\* FALSE); when what follows is no digit the extraction fails and stores 0.
\* (Signs, and runs of more than nine digits, which may overflow, are not
\* among the inputs.)
ParseUInt(val) ==
    LET ws == PrefixLen(val, IsSpace)
        rest == Drop(val, ws)
        n == PrefixLen(rest, IsDigit)
    IN  IF rest = <<>> THEN [ok |-> FALSE, stored |-> FALSE, value |-> 0]
        ELSE IF n = 0 THEN [ok |-> FALSE, stored |-> TRUE, value |-> 0]
        ELSE [ok |-> TRUE, stored |-> TRUE,
              value |-> DecValue(SubSeq(rest, 1, n))]

\* The uint32_t values standing for "any value": an uninitialized uint32_t,
\* or the conversion of a float that no uint32_t can hold.
UndefinedUInt == {0, 1, 1000000}

\* uint32_t interval = 1000.f / rate.  For rate > 0 the float quotient is
\* converted by truncation; a quotient that is not an integer is at least
\* 1/rate away from one, far more than float rounding, so the result is the
\* integer quotient.  For rate = 0 the quotient is +inf and the conversion is
\* undefined.
IntervalOfRateRounded(rate) ==
    IF rate = 0 THEN UndefinedUInt ELSE {(2000 + rate) \div (2 * rate)}

IntervalOfRate(rate) ==
    IF rate = 0 THEN UndefinedUInt ELSE {1000 \div rate}

\* `uint32_t rate;` that the extraction never assigns
RateOfUninitialized(val) == UndefinedUInt

\* `uint32_t rate; vals >> rate;`: the values rate may hold afterwards; it
\* stays uninitialized when the extraction stores nothing.
RateOf(val) ==
    IF ParseUInt(val).stored THEN {ParseUInt(val).value} ELSE UndefinedUInt

\* A delay entry that leaves the delay as it was
DelayOfKept(val, old) == old

\* `vals >> config->keyboard.delay`
DelayOf(val, old) ==
    IF ParseUInt(val).stored THEN ParseUInt(val).value ELSE old

\* expandTilde(path)
expandTilde(path, h) ==
    IF path = <<>> \/ path[1] # "~" THEN path
    ELSE IF h = NoHome THEN path
    ELSE h \o Drop(path, 1)

-----------------------------------------------------------------------------
(* The regular expressions of parse_config, each matched with regex_match   *)
(* (the whole string must match).                                           *)

\* comment_re "^ *([^#]*) *#?.*": leading spaces are skipped, group 1 is the
\* longest run without '#', the rest goes to `#?.*`.  `.` matches no line
\* terminator, so the match fails when one follows the first '#'; no shorter
\* group 1 can help, since `.*` would still have to cross it.
comment_re(fullline) ==
    LET a == PrefixLen(fullline, LAMBDA c : c = " ")
        body == Drop(fullline, a)
        n == PrefixLen(body, LAMBDA c : c # "#")
        tail == Drop(body, n)
    IN  [matched |-> \A i \in 1..Len(tail) : i = 1 \/ Dot(tail[i]),
         line |-> SubSeq(body, 1, n)]

\* section_re "^\[([^\]]+)\]$"
section_re(line) ==
    LET n == Len(line)
    IN  [matched |-> /\ n >= 3
                     /\ line[1] = "["
                     /\ line[n] = "]"
                     /\ \A i \in 2..(n - 1) : line[i] # "]",
         name |-> IF n >= 3 THEN SubSeq(line, 2, n - 1) ELSE <<>>]

\* The part of a line kv_re gives to its second group: what follows the key,
\* the spaces, the '=' and the spaces after it.
KvSplit(line) ==
    LET k == PrefixLen(line, LAMBDA c : c \notin {"=", " "})
        afterKey == Drop(line, k)
        s1 == PrefixLen(afterKey, LAMBDA c : c = " ")
        atEq == Drop(afterKey, s1)
        hasEq == atEq # <<>> /\ atEq[1] = "="
        afterEq == IF hasEq THEN Drop(atEq, 1) ELSE <<>>
        s2 == PrefixLen(afterEq, LAMBDA c : c = " ")
    IN  [key |-> SubSeq(line, 1, k), hasEq |-> k >= 1 /\ hasEq,
         spaces |-> s2, rest |-> Drop(afterEq, s2)]

\* kv_re "^([^= ]+) *= *(.+)$" (current revision).  The key is the longest run
\* without '=' and ' '.  ` *` gives back its last space to `(.+)` when nothing
\* else is left for it.
kv_re_current(line) ==
    LET p == KvSplit(line)
        val == IF p.rest # <<>> THEN p.rest
               ELSE IF p.spaces >= 1 THEN <<" ">> ELSE <<>>
    IN  [matched |-> /\ p.hasEq
                     /\ val # <<>>
                     /\ \A i \in 1..Len(p.rest) : Dot(p.rest[i]),
         key |-> p.key, val |-> val]

\* kv_re "^([^= ]+) *= *([^ ]+)$" (scripts variant): the value holds no space
kv_re_scripts(line) ==
    LET p == KvSplit(line)
    IN  [matched |-> /\ p.hasEq
                     /\ p.rest # <<>>
                     /\ \A i \in 1..Len(p.rest) : p.rest[i] # " ",
         key |-> p.key, val |-> p.rest]

kv_re(v, line) ==
    IF v = "current" THEN kv_re_current(line) ELSE kv_re_scripts(line)

-----------------------------------------------------------------------------
(* parse_config_entry: the set of its outcomes [kind, cfg, diag], where     *)
(* kind is "ok" (it returned), "exit1" (it called exit(1)) or "throw"       *)
(* (std::logic_error left it; nothing catches it, so std::terminate aborts  *)
(* the process).                                                            *)

EntryOk(c) == [kind |-> "ok", cfg |-> c, diag |-> NoDiag]

NotInSection ==
    [msg |-> "not in a config section", line |-> <<>>]

\* current revision, lines 113-148
parse_config_entry_current(c, section, key, val) ==
    CASE section = "keyboard" ->
            IF key = s_delay
            THEN {EntryOk([c EXCEPT !.delay = DelayOf(val, c.delay)])}
            ELSE IF key = s_rate
            THEN {EntryOk([c EXCEPT !.interval = i]) :
                      i \in UNION {IntervalOfRate(r) : r \in RateOf(val)}}
            ELSE IF key = s_on_connect
            THEN {EntryOk([c EXCEPT !.on_connect = val])}
            ELSE IF key = s_on_disconnect
            THEN {EntryOk([c EXCEPT !.on_disconnect = val])}
            ELSE {[kind |-> "throw", cfg |-> c,
                   diag |-> [msg |-> "unknown keyboard section entry",
                             line |-> <<>>]]}
      [] OTHER ->
            {[kind |-> "exit1", cfg |-> c, diag |-> NotInSection]}

\* scripts variant, lines 498-530: a key that no branch names is skipped
parse_config_entry_scripts(c, section, key, val, h) ==
    CASE section = "keyboard" ->
            IF key = s_delay
            THEN {EntryOk([c EXCEPT !.delay = DelayOf(val, c.delay)])}
            ELSE IF key = s_rate
            THEN {EntryOk([c EXCEPT !.interval = i]) :
                      i \in UNION {IntervalOfRate(r) : r \in RateOf(val)}}
            ELSE {EntryOk(c)}
      [] section = "scripts" ->
            IF key = s_on_enable
            THEN {EntryOk([c EXCEPT !.on_enable = expandTilde(val, h)])}
            ELSE IF key = s_on_disable
            THEN {EntryOk([c EXCEPT !.on_disable = expandTilde(val, h)])}
            ELSE {EntryOk(c)}
      [] OTHER ->
            {[kind |-> "exit1", cfg |-> c, diag |-> NotInSection]}

parse_config_entry(v, c, section, key, val, h) ==
    IF v = "current" THEN parse_config_entry_current(c, section, key, val)
    ELSE parse_config_entry_scripts(c, section, key, val, h)

\* The section names parse_config accepts
KnownSections(v) ==
    IF v = "current" THEN {s_keyboard} ELSE {s_keyboard, s_scripts}

SectionOf(name) == IF name = s_keyboard THEN "keyboard" ELSE "scripts"

\* One iteration of parse_config's getline loop on `fullline`, the nr-th line:
\* the set of outcomes [kind, section, cfg, diag]; kind "continue" goes on to
\* the next line.
ParseLineOutcomes(v, h, section, c, nr, fullline) ==
    LET cm == comment_re(fullline)
        line == cm.line
        sm == section_re(line)
        kv == kv_re(v, line)
        Out(k, s, cc, d) == [kind |-> k, section |-> s, cfg |-> cc, diag |-> d]
    IN  IF ~cm.matched
        THEN {Out("exit1", section, c,
                  [msg |-> "error in config file line", line |-> <<nr>>])}
        ELSE IF \A i \in 1..Len(line) : line[i] = " "
        THEN {Out("continue", section, c, NoDiag)}
        ELSE IF sm.matched
        THEN IF sm.name \in KnownSections(v)
             THEN {Out("continue", SectionOf(sm.name), c, NoDiag)}
             ELSE {Out("exit1", section, c,
                       [msg |-> "unknown section name", line |-> <<>>])}
        ELSE IF kv.matched
        THEN {Out(IF e.kind = "ok" THEN "continue" ELSE e.kind,
                  section, e.cfg, e.diag) :
                  e \in parse_config_entry(v, c, section, kv.key, kv.val, h)}
        ELSE {Out("exit1", section, c,
                  [msg |-> "invalid syntax in line", line |-> <<nr>>])}

RECURSIVE ParseFrom(_, _, _, _, _, _)
\* The getline loop of parse_config from line k + 1 of file f on, entered with
\* current_section = section and ret = c: the set of its results, "returned"
\* with the config it returns, or the way the process ends.
ParseFrom(v, h, f, k, section, c) ==
    IF k = Len(f) THEN {[kind |-> "returned", cfg |-> c]}
    ELSE UNION {IF o.kind = "continue"
                THEN ParseFrom(v, h, f, k + 1, o.section, o.cfg)
                ELSE {[kind |-> o.kind, cfg |-> o.cfg]} :
                    o \in ParseLineOutcomes(v, h, section, c, k + 1, f[k + 1])}

\* parse_config on an open file f, from its fresh state (lines 152, 168-171)
parse_config(v, h, f) == ParseFrom(v, h, f, 0, "none", DefaultConfig)

-----------------------------------------------------------------------------
(* X input events *)

XIDeviceEnabled == 64
XIDeviceDisabled == 128
XkbUseCoreKbd == 256

\* flags & bit, for a bit that is a power of two
HasFlag(flags, bit) == (flags \div bit) % 2 = 1

\* the bitwise or of two flag words over the two bits above
FlagOr(f, g) ==
    LET B(bit) == IF HasFlag(f, bit) \/ HasFlag(g, bit) THEN bit ELSE 0
    IN  B(XIDeviceEnabled) + B(XIDeviceDisabled)

\* XIHierarchyInfo records an event may carry
Records ==
    {[use |-> "XISlaveKeyboard", flags |-> XIDeviceEnabled, deviceid |-> 7],
     [use |-> "XISlaveKeyboard", flags |-> XIDeviceDisabled, deviceid |-> 7],
     [use |-> "XISlaveKeyboard",
      flags |-> XIDeviceEnabled + XIDeviceDisabled, deviceid |-> 12],
     [use |-> "XISlaveKeyboard", flags |-> 0, deviceid |-> 12],
     [use |-> "XISlavePointer",
      flags |-> XIDeviceEnabled + XIDeviceDisabled, deviceid |-> 9]}

\* The info of a hierarchy event: one record per device
InfoSeqs ==
    {info \in UNION {[1..n -> Records] : n \in 0..MaxInfo} :
        \A i, j \in 1..Len(info) :
            info[i].deviceid = info[j].deviceid => i = j}

RECURSIVE OrOfFlags(_)
\* XIHierarchyEvent.flags: the server sets it to the or of the records' flags
OrOfFlags(info) ==
    IF info = <<>> THEN 0
    ELSE FlagOr(Head(info).flags, OrOfFlags(Tail(info)))

HierarchyEvent(info, dataok) ==
    [type |-> "GenericEvent", extension |-> "XInputExtension",
     evtype |-> "XI_HierarchyChanged", dataok |-> dataok,
     flags |-> OrOfFlags(info), info |-> info]

\* `XEvent event;` before XNextEvent has filled it
NoEvent ==
    [type |-> "none", extension |-> "none", evtype |-> "none",
     dataok |-> FALSE, flags |-> 0, info |-> <<>>]

\* The events XNextEvent may deliver
Events ==
    {[type |-> "KeyPress", extension |-> "none", evtype |-> "none",
      dataok |-> FALSE, flags |-> 0, info |-> <<>>],
     [type |-> "GenericEvent", extension |-> "other",
      evtype |-> "XI_HierarchyChanged", dataok |-> TRUE, flags |-> 0,
      info |-> <<>>],
     [type |-> "GenericEvent", extension |-> "XInputExtension",
      evtype |-> "XI_DeviceChanged", dataok |-> TRUE, flags |-> 0,
      info |-> <<>>],
     HierarchyEvent(<<>>, FALSE)}
    \cup {HierarchyEvent(info, TRUE) : info \in InfoSeqs}

\* An event filter that does not look at the flags of the hierarchy event
EventAcceptedAnyFlags(e) ==
    /\ e.type = "GenericEvent"
    /\ e.extension = "XInputExtension"
    /\ e.evtype = "XI_HierarchyChanged"
    /\ e.dataok

\* The event filter of the loop, lines 337-344: TRUE when the records of the
\* event are iterated.
EventAccepted(e) ==
    /\ e.type = "GenericEvent"
    /\ e.extension = "XInputExtension"
    /\ e.evtype = "XI_HierarchyChanged"
    /\ e.dataok
    /\ (HasFlag(e.flags, XIDeviceEnabled) \/ HasFlag(e.flags, XIDeviceDisabled))

\* A record test that does not look at the device class
RecordTriggersAnyUse(r, enabled) ==
    HasFlag(r.flags, IF enabled THEN XIDeviceEnabled ELSE XIDeviceDisabled)

\* Whether the loop body calls the dispatcher for record r in direction
\* `enabled`, lines 348-354
RecordTriggers(r, enabled) ==
    /\ r.use = "XISlaveKeyboard"
    /\ HasFlag(r.flags, IF enabled THEN XIDeviceEnabled ELSE XIDeviceDisabled)

-----------------------------------------------------------------------------
(* The dispatcher *)

\* set_kbd_repeat_rate without the test of `enabled`
set_kbd_repeat_rate_always(c, deviceid, enabled) ==
    <<[op |-> "XkbSetAutoRepeatRate", dev |-> deviceid,
       delay |-> c.delay, interval |-> c.interval]>>

\* set_kbd_repeat_rate that applies the built-in defaults
set_kbd_repeat_rate_defaults(c, deviceid, enabled) ==
    IF enabled
    THEN <<[op |-> "XkbSetAutoRepeatRate", dev |-> deviceid,
            delay |-> DefaultDelay, interval |-> DefaultInterval]>>
    ELSE <<>>

\* set_kbd_repeat_rate that ignores the device id it is given
set_kbd_repeat_rate_core(c, deviceid, enabled) ==
    IF enabled
    THEN <<[op |-> "XkbSetAutoRepeatRate", dev |-> XkbUseCoreKbd,
            delay |-> c.delay, interval |-> c.interval]>>
    ELSE <<>>

\* set_kbd_repeat_rate / action: the X calls it makes
set_kbd_repeat_rate(c, deviceid, enabled) ==
    IF enabled
    THEN <<[op |-> "XkbSetAutoRepeatRate", dev |-> deviceid,
            delay |-> c.delay, interval |-> c.interval]>>
    ELSE <<>>

NoHook == [hook |-> "none", cmd |-> <<>>]

\* run_kbd_plug_script: the command it passes to exec_script, if any
run_kbd_plug_script(c, enabled) ==
    LET h == IF enabled
             THEN [hook |-> "on_connect", cmd |-> c.on_connect]
             ELSE [hook |-> "on_disconnect", cmd |-> c.on_disconnect]
    IN  IF h.cmd # <<>> THEN h ELSE NoHook

\* execute_script (scripts variant): the command it passes to system(), if any
execute_script(c, enabled) ==
    IF enabled /\ c.on_enable # <<>>
    THEN [hook |-> "on_enable", cmd |-> c.on_enable]
    ELSE IF c.on_disable # <<>>
    THEN [hook |-> "on_disable", cmd |-> c.on_disable]
    ELSE NoHook

HookToRun(v, c, enabled) ==
    IF v = "current" THEN run_kbd_plug_script(c, enabled)
    ELSE execute_script(c, enabled)

\* exec_script without its setenv
ChildEnvUnset(v, deviceid) == <<>>

\* The environment exec_script adds in the child: the value of XINPUTID.
\* system() adds nothing: <<>> stands for "not set".
ChildEnv(v, deviceid) ==
    IF v = "current" THEN ToDecimal(deviceid) ELSE <<>>

-----------------------------------------------------------------------------
(* Processes *)

Pids == 0..(MaxProcs - 1)
Root == 0

IdleProc ==
    [parent |-> Root, recv |-> Root, evno |-> 0, event |-> NoEvent,
     info |-> <<>>, idx |-> 0, child |-> Root,
     resume |-> "none", hook |-> "none", cmd |-> <<>>, dev |-> 0,
     env |-> <<>>, exit |-> 0]

\* The places of a process in the loop: blocked in XNextEvent; before the
\* enable part and before the disable part of record idx; at the head of the
\* for loop (i++ and its test); blocked in waitpid.
LoopPcs == {"wait_event", "rec_enable", "rec_disable", "rec_next", "waitpid"}

FreePids == {c \in Pids : pc[c] = "free"}

-----------------------------------------------------------------------------
(* Startup of the root process: parse_args, parse_config, X setup *)

parseVars == <<linenr, current_section>>
envVars == <<variant, argv, home, fileOpens, file, exec_can_fail>>
xVars == <<display, eventMask, nrecv, proc, xlog, xkb_core>>

\* The root process ends: exit(code), return from main, or a signal
Terminate(how, d) ==
    /\ status' = how
    /\ diag' = d
    /\ pc' = [pc EXCEPT ![Root] = "exited"]

\* parse_args, lines 30-95.  The -h branch reads op->name with op == nullptr
\* (line 61) before it reaches exit(0): undefined, the process exits 0 or dies.
ParseArgs ==
    /\ pc[Root] = "parse_args"
    /\ UNCHANGED <<envVars, cfg, parseVars, xVars>>
    /\ IF argv.help
       THEN /\ \E how \in {"exit0", "SIGSEGV"} :
                   Terminate(how, [msg |-> "usage", line |-> <<>>])
            /\ UNCHANGED args
       ELSE IF argv.extra
       THEN /\ Terminate("exit1", [msg |-> "invalid non-option arguments",
                                     line |-> <<>>])
            /\ UNCHANGED args
       ELSE IF ~argv.config /\ home = NoHome
       THEN /\ Terminate("exit1", [msg |-> "HOME env not set",
                                     line |-> <<>>])
            /\ UNCHANGED args
       ELSE /\ args' = [custom_config |-> argv.config]
            /\ pc' = [pc EXCEPT ![Root] = "parse_config"]
            /\ UNCHANGED <<status, diag>>

\* parse_config that exits whenever the file cannot be opened
OpenFailureExits(a) == "exit1"

\* parse_config that falls back to the defaults whenever the file cannot be
\* opened
OpenFailureDefaults(a) == "default"

\* What parse_config does when the file cannot be opened, lines 155-162:
\* "exit1", or "default" (return the default config)
OpenFailure(a) == IF a.custom_config THEN "exit1" ELSE "default"

\* parse_config up to its getline loop, lines 151-171
OpenConfig ==
    /\ pc[Root] = "parse_config"
    /\ UNCHANGED <<envVars, args, xVars>>
    /\ linenr' = 0
    /\ current_section' = "none"
    /\ IF fileOpens
       THEN /\ cfg' = DefaultConfig
            /\ pc' = [pc EXCEPT ![Root] = "parse_line"]
            /\ UNCHANGED <<status, diag>>
       ELSE IF OpenFailure(args) = "exit1"
       THEN /\ Terminate("exit1", [msg |-> "failed to open config file",
                                     line |-> <<>>])
            /\ UNCHANGED cfg
       ELSE /\ cfg' = DefaultConfig
            /\ diag' = [msg |-> "using default config", line |-> <<>>]
            /\ pc' = [pc EXCEPT ![Root] = "connect"]
            /\ UNCHANGED status

\* One iteration of the getline loop of parse_config, lines 172-227: read the
\* next line and handle it, or return ret at the end of the file.
ParseLine ==
    /\ pc[Root] = "parse_line"
    /\ UNCHANGED <<envVars, args, xVars>>
    /\ IF linenr = Len(file)
       THEN /\ pc' = [pc EXCEPT ![Root] = "connect"]
            /\ UNCHANGED <<linenr, current_section, cfg, status, diag>>
       ELSE /\ linenr' = linenr + 1
            /\ \E o \in ParseLineOutcomes(variant, home, current_section, cfg,
                                          linenr + 1, file[linenr + 1]) :
                 /\ current_section' = o.section
                 /\ cfg' = o.cfg
                 /\ CASE o.kind = "continue" ->
                             UNCHANGED <<pc, status, diag>>
                      [] o.kind = "exit1" -> Terminate("exit1", o.diag)
                      [] OTHER -> Terminate("SIGABRT", o.diag)

\* main, lines 281-287: XOpenDisplay, whose result is not checked, then
\* XQueryExtension.  With a null display XQueryExtension dereferences it:
\* undefined; the process dies of SIGSEGV, or the call yields false.
Connect ==
    /\ pc[Root] = "connect"
    /\ UNCHANGED <<envVars, args, cfg, parseVars, eventMask, nrecv, proc,
                   xlog, xkb_core>>
    /\ \E d \in {"null", "open"} :
         /\ display' = d
         /\ IF d = "null"
            THEN \E how \in {"SIGSEGV", "exit1"} :
                     Terminate(how, IF how = "exit1"
                                    THEN [msg |-> "no xinput extension",
                                          line |-> <<>>]
                                    ELSE diag)
            ELSE \E present \in BOOLEAN :
                     IF present
                     THEN /\ pc' = [pc EXCEPT ![Root] = "startup"]
                          /\ UNCHANGED <<status, diag>>
                     ELSE Terminate("exit1", [msg |-> "no xinput extension",
                                               line |-> <<>>])

\* main, lines 316-332: the repeat rate of the core keyboard, XISelectEvents
Startup ==
    /\ pc[Root] = "startup"
    /\ UNCHANGED <<envVars, args, cfg, parseVars, display, nrecv, proc,
                   xlog, status, diag>>
    /\ xkb_core' = xkb_core \o set_kbd_repeat_rate(cfg, XkbUseCoreKbd, TRUE)
    /\ eventMask' = TRUE
    /\ pc' = [pc EXCEPT ![Root] = "wait_event"]

-----------------------------------------------------------------------------
(* The event loop and the dispatcher, lines 333-359 (678-706), and            *)
(* exec_script, lines 231-265.  A process p is the root process or a child   *)
(* that fork created.                                                        *)

startVars == <<envVars, args, linenr, current_section, cfg, diag, status,
               display, eventMask>>

\* XNextEvent and the event filter: an accepted event starts the iteration
\* of its records, any other event is dropped.
XNextEvent(p) ==
    /\ pc[p] = "wait_event"
    /\ nrecv < MaxEvents
    /\ UNCHANGED <<startVars, xkb_core>>
    /\ nrecv' = nrecv + 1
    /\ \E e \in Events :
         IF EventAccepted(e) /\ e.info # <<>>
         THEN /\ proc' = [proc EXCEPT ![p].recv = p,
                                      ![p].evno = nrecv + 1,
                                      ![p].event = e,
                                      ![p].info = e.info, ![p].idx = 1]
              /\ pc' = [pc EXCEPT ![p] = "rec_enable"]
              /\ xlog' = [xlog EXCEPT ![p] = <<>>]
         ELSE /\ proc' = [proc EXCEPT ![p].event = e]
              /\ UNCHANGED <<pc, xlog>>

ScriptFailed(dev, ret) == [op |-> "script failed", dev |-> dev, ret |-> ret]

CoreCalls(calls) == SelectSeq(calls, LAMBDA c : c.dev = XkbUseCoreKbd)

\* The loop body for record idx in one direction: handle_keyboard_plug
\* (set_kbd_repeat_rate, then run_kbd_plug_script up to the fork in
\* exec_script) if the record triggers it.
HandleRecord(p, enabled) ==
    LET pr == proc[p]
        r == pr.info[pr.idx]
        nxt == IF enabled THEN "rec_disable" ELSE "rec_next"
        calls == set_kbd_repeat_rate(cfg, r.deviceid, enabled)
        h == HookToRun(variant, cfg, enabled)
        Continue(log) ==
            /\ pc' = [pc EXCEPT ![p] = nxt]
            /\ xlog' = [xlog EXCEPT ![p] = log]
            /\ UNCHANGED proc
    IN  /\ pc[p] = IF enabled THEN "rec_enable" ELSE "rec_disable"
        /\ UNCHANGED <<startVars, nrecv>>
        /\ IF ~RecordTriggers(r, enabled)
           THEN Continue(xlog[p]) /\ UNCHANGED xkb_core
           ELSE /\ xkb_core' = xkb_core \o CoreCalls(calls)
                /\ IF h.hook = "none"
                   THEN Continue(xlog[p] \o calls)
                   ELSE LET run == [op |-> "run", dev |-> r.deviceid,
                                    enabled |-> enabled, hook |-> h.hook]
                            log == xlog[p] \o calls \o <<run>>
                        IN  \E forked \in BOOLEAN :
                              IF forked /\ FreePids # {}
                              THEN LET c == Min(FreePids)
                                   IN  /\ pc' = [pc EXCEPT ![p] = "waitpid",
                                                           ![c] = "forked"]
                                       /\ proc' = [proc EXCEPT
                                            ![p].child = c,
                                            ![p].resume = nxt,
                                            ![c] = [pr EXCEPT
                                               !.parent = p, !.child = c,
                                               !.resume = nxt,
                                               !.hook = h.hook,
                                               !.cmd = h.cmd,
                                               !.dev = r.deviceid]]
                                       /\ xlog' = [xlog EXCEPT ![p] = log,
                                                               ![c] = log]
                              ELSE Continue(log \o
                                       <<ScriptFailed(r.deviceid, -1)>>)

RecEnable(p) == HandleRecord(p, TRUE)

RecDisable(p) == HandleRecord(p, FALSE)

\* The head of the for loop, line 346: the next record, or, after the last
\* one, the next XNextEvent (the XEvent of this iteration is gone).
RecNext(p) ==
    /\ pc[p] = "rec_next"
    /\ UNCHANGED <<startVars, nrecv, xkb_core>>
    /\ xlog' = [xlog EXCEPT ![p] = <<>>]
    /\ IF proc[p].idx < Len(proc[p].info)
       THEN /\ pc' = [pc EXCEPT ![p] = "rec_enable"]
            /\ proc' = [proc EXCEPT ![p].idx = proc[p].idx + 1]
       ELSE /\ pc' = [pc EXCEPT ![p] = "wait_event"]
            /\ proc' = [proc EXCEPT ![p].recv = Root, ![p].evno = 0,
                                    ![p].event = NoEvent,
                                    ![p].info = <<>>, ![p].idx = 0]

\* What the child does when execlp fails.  exec_script (lines 247-251, 264)
\* prints the error and returns -1 to its caller: "return".  The child that
\* system() creates calls _exit(127): "_exit".
ExecFailure(v) == IF v = "current" THEN "return" ELSE "_exit"

\* The child after fork: setenv and execlp("/bin/sh", "sh", "-c", command)
ChildExec(c) ==
    /\ pc[c] = "forked"
    /\ UNCHANGED <<startVars, nrecv, xkb_core>>
    /\ \E ok \in {TRUE, ~exec_can_fail} :
         IF ok
         THEN /\ pc' = [pc EXCEPT ![c] = "sh"]
              /\ proc' = [proc EXCEPT
                            ![c].env = ChildEnv(variant, proc[c].dev)]
              /\ UNCHANGED xlog
         ELSE IF ExecFailure(variant) = "return"
         THEN /\ pc' = [pc EXCEPT ![c] = proc[c].resume]
              /\ xlog' = [xlog EXCEPT ![c] = xlog[c] \o
                                        <<ScriptFailed(proc[c].dev, -1)>>]
              /\ UNCHANGED proc
         ELSE /\ pc' = [pc EXCEPT ![c] = "zombie"]
              /\ proc' = [proc EXCEPT ![c].exit = 127]
              /\ UNCHANGED xlog

\* The shell ends: it exits with a status, or a signal kills it (-1)
ShExit(c) ==
    /\ pc[c] = "sh"
    /\ UNCHANGED <<startVars, nrecv, xkb_core, xlog>>
    /\ \E st \in {0, 1, -1} :
         /\ pc' = [pc EXCEPT ![c] = "zombie"]
         /\ proc' = [proc EXCEPT ![c].exit = st]

\* waitpid returns in the parent (lines 252-263, or inside system()), and the
\* caller reports a result other than 0 (lines 305-307, 649-651, 655-657)
Waitpid(p) ==
    LET c == proc[p].child
        ret == proc[c].exit
        log == IF ret # 0
               THEN xlog[p] \o <<ScriptFailed(proc[c].dev, ret)>>
               ELSE xlog[p]
    IN  /\ pc[p] = "waitpid"
        /\ pc[c] = "zombie"
        /\ UNCHANGED <<startVars, nrecv, xkb_core>>
        /\ pc' = [pc EXCEPT ![p] = proc[p].resume, ![c] = "free"]
        /\ proc' = [proc EXCEPT ![p].child = p, ![c] = IdleProc]
        /\ xlog' = [xlog EXCEPT ![p] = log, ![c] = <<>>]

-----------------------------------------------------------------------------
(* Inputs *)

Section(name) == <<"[">> \o name \o <<"]">>

\* the line `key = val`
Kv(key, val) == key \o <<" ", "=", " ">> \o val

s_c == <<"/", "c">>
s_d == <<"/", "d">>
s_tilde_e == <<"~", "/", "e">>
s_bin_true == <<"/","b","i","n","/","t","r","u","e">>

\* A config with on_enable set in [keyboard]
OnEnableInKeyboard ==
    <<Section(s_keyboard), s_rate \o <<"=", "5", "0">>,
      s_on_enable \o <<"=">> \o s_bin_true>>

\* A config with on_connect set in [keyboard]
OnConnectInKeyboard ==
    <<Section(s_keyboard), s_rate \o <<"=", "5", "0">>,
      s_on_connect \o <<"=">> \o s_c>>

\* Config files of the runs of the whole program, for revision v
ConfigFiles(v) ==
    {<<>>,
     OnEnableInKeyboard,
     <<Section(<<"m", "o", "u", "s", "e">>)>>,
     <<Kv(s_delay, <<"1">>)>>}
    \cup
    IF v = "current"
    THEN {OnConnectInKeyboard,
          <<Section(s_keyboard), Kv(s_on_disconnect, s_d)>>,
          <<Section(s_keyboard), Kv(s_delay, <<"3", "0", "0">>),
            Kv(s_on_connect, s_c), Kv(s_on_disconnect, s_d)>>}
    ELSE {<<Section(s_scripts), Kv(s_on_enable, s_tilde_e)>>,
          <<Section(s_scripts), Kv(s_on_disable, s_d)>>,
          <<Section(s_keyboard), Kv(s_rate, <<"5", "0">>),
            Section(s_scripts), Kv(s_on_enable, s_c),
            Kv(s_on_disable, s_d)>>}

s_home == <<"/", "h">>

HomeDirs == {NoHome, s_home}

ArgvSet == [help : BOOLEAN, config : BOOLEAN, extra : BOOLEAN]

InitCommon ==
    /\ variant \in {"current", "scripts"}
    /\ args = [custom_config |-> FALSE]
    /\ linenr = 0
    /\ current_section = "none"
    /\ cfg = DefaultConfig
    /\ diag = NoDiag
    /\ status = "running"
    /\ display = "unopened"
    /\ eventMask = FALSE
    /\ nrecv = 0
    /\ pc = [p \in Pids |-> IF p = Root THEN "parse_args" ELSE "free"]
    /\ proc = [p \in Pids |-> IdleProc]
    /\ xlog = [p \in Pids |-> <<>>]
    /\ xkb_core = <<>>

\* Runs of the whole program: started without stray arguments and with HOME
\* set, with or without -c; the file named by -c opens or not, the default
\* file does not open.
Init ==
    /\ InitCommon
    /\ exec_can_fail \in BOOLEAN
    /\ argv \in {a \in ArgvSet : ~a.help /\ ~a.extra}
    /\ home = s_home
    /\ fileOpens \in {o \in BOOLEAN : o => argv.config}
    /\ file \in IF fileOpens THEN ConfigFiles(variant) ELSE {<<>>}

Next ==
    \/ ParseArgs
    \/ OpenConfig
    \/ ParseLine
    \/ Connect
    \/ Startup
    \/ \E p \in Pids : XNextEvent(p)
    \/ \E p \in Pids : RecEnable(p)
    \/ \E p \in Pids : RecDisable(p)
    \/ \E p \in Pids : RecNext(p)
    \/ \E p \in Pids : ChildExec(p)
    \/ \E p \in Pids : ShExit(p)
    \/ \E p \in Pids : Waitpid(p)

Spec == Init /\ [][Next]_vars

-----------------------------------------------------------------------------
(* Runs of the parser alone, on generated config files *)

s_foo == <<"f", "o", "o">>
s_mouse == <<"m", "o", "u", "s", "e">>
s_comment == <<"#", " ", "c">>

\* What may follow the content of a line: a comment after a space, or spaces
s_trailing_comment == <<" ", "#", " ", "c">>
s_trailing_spaces == <<" ", " ">>

\* Lines of the generated config files
LinePool ==
    {Section(s_keyboard), Section(s_scripts), Section(s_mouse),
     Section(s_keyboard) \o s_trailing_comment,
     Kv(s_delay, <<"3", "0", "0">>) \o s_trailing_comment,
     Kv(s_on_connect, s_c) \o s_trailing_spaces,
     Kv(s_delay, <<"3", "0", "0">>), Kv(s_rate, <<"7">>),
     Kv(s_rate, <<"1", "0", "0">>), Kv(s_on_connect, s_c),
     Kv(s_on_enable, s_tilde_e), Kv(s_foo, <<"1">>),
     s_comment, <<>>, <<" ", " ">>, <<"\t">>, <<"j", "u", "n", "k">>}

PoolFiles == UNION {[1..n -> LinePool] : n \in 0..MaxLines}

\* The file `[keyboard]`, `rate = R`
RateFile(R) == <<Section(s_keyboard), Kv(s_rate, ToDecimal(R))>>

RateFiles == {RateFile(R) : R \in 1..MaxRate}

InitParse ==
    /\ InitCommon
    /\ exec_can_fail = FALSE
    /\ argv = [help |-> FALSE, config |-> TRUE, extra |-> FALSE]
    /\ home \in HomeDirs
    /\ fileOpens \in BOOLEAN
    /\ file \in IF fileOpens THEN PoolFiles \cup RateFiles ELSE {<<>>}

NextParse ==
    \/ ParseArgs
    \/ OpenConfig
    \/ ParseLine

ParseSpec == InitParse /\ [][NextParse]_vars

-----------------------------------------------------------------------------
(* Runs of the parser on files whose delay or rate entry has a value that   *)
(* is no positive number                                                    *)

\* Values of a delay or rate entry: text, a number followed by text, zero,
\* and a number
EntryValues == {<<"x">>, <<"1", "x">>, <<"0">>, <<"3", "0", "0">>}

\* The files `[keyboard]`, `key = value`, with or without a `delay = 300`
\* after it
ValueFiles ==
    {<<Section(s_keyboard), Kv(key, v)>> \o rest :
        key \in {s_delay, s_rate}, v \in EntryValues,
        rest \in {<<>>, <<Kv(s_delay, <<"3", "0", "0">>)>>}}

InitValue ==
    /\ InitCommon
    /\ exec_can_fail = FALSE
    /\ argv = [help |-> FALSE, config |-> TRUE, extra |-> FALSE]
    /\ home \in HomeDirs
    /\ fileOpens \in BOOLEAN
    /\ file \in IF fileOpens THEN ValueFiles ELSE {<<>>}

ValueSpec == InitValue /\ [][NextParse]_vars

-----------------------------------------------------------------------------
(* Runs in which every process that can take a step eventually takes it,   *)
(* every shell a hook started ends, and execlp of /bin/sh does not fail.    *)

InitLive == Init /\ ~exec_can_fail

Fairness ==
    \A p \in Pids :
        /\ WF_vars(RecEnable(p))
        /\ WF_vars(RecDisable(p))
        /\ WF_vars(RecNext(p))
        /\ WF_vars(ChildExec(p))
        /\ WF_vars(ShExit(p))
        /\ WF_vars(Waitpid(p))

LiveSpec == InitLive /\ [][Next]_vars /\ Fairness

\* The same scheduling when execlp may fail
FairSpec == Init /\ [][Next]_vars /\ Fairness

-----------------------------------------------------------------------------
(* Claims about the parser *)

\* The root process has read line k of the file and has not read further
JustRead(k) == fileOpens /\ linenr = k /\ k >= 1

\* The file is `[keyboard]`, `rate = R` for a numeral R
IsRateFile ==
    /\ Len(file) = 2
    /\ file[1] = Section(s_keyboard)
    /\ Len(file[2]) > Len(Kv(s_rate, <<>>))
    /\ SubSeq(file[2], 1, Len(Kv(s_rate, <<>>))) = Kv(s_rate, <<>>)
    /\ \A k \in (Len(Kv(s_rate, <<>>)) + 1)..Len(file[2]) : IsDigit(file[2][k])

\* The rate R that the file gives
RateOfFile == DecValue(Drop(file[2], Len(Kv(s_rate, <<>>))))

\* parse_config has returned the config of a file `[keyboard]`, `rate = R`
\* with R > 0
RateParsed == IsRateFile /\ pc[Root] = "connect" /\ RateOfFile > 0

\* C4 as claimed: for every rate R > 0 given by a `rate` entry of the
\* keyboard section, the parsed interval is round(1000 / R), the integer
\* nearest to the quotient.
C4_IntervalIsRounded ==
    RateParsed =>
        LET d == 1000 - cfg.interval * RateOfFile
        IN  2 * (IF d < 0 THEN -d ELSE d) <= RateOfFile

\* C4 as amended: for every rate R > 0 given by a `rate` entry of the keyboard
\* section, the parsed interval is the quotient 1000 / R truncated to an
\* integer: interval * R <= 1000 < (interval + 1) * R.
C4_IntervalIsTruncated ==
    RateParsed =>
        /\ cfg.interval * RateOfFile <= 1000
        /\ 1000 < (cfg.interval + 1) * RateOfFile

\* a rate that does not divide 1000 has been parsed: 1000 / 7 = 142.86
C4_Witness == RateParsed /\ RateOfFile = 7 /\ cfg.interval = 142

\* A line naming a section that parse_config does not know
UnknownSectionLines == {Section(s_mouse)}

\* A line assigning a key that no section knows
UnknownKeyLines == {Kv(s_foo, <<"1">>)}

\* C5: a config that references an unknown section name, or an unknown key
\* inside a known section, always terminates parsing, and the diagnostic
\* reports the number of the physical line that holds the error.
C5_UnknownIsFatalWithLine ==
    \A k \in 1..Len(file) :
        (/\ JustRead(k)
         /\ \/ file[k] \in UnknownSectionLines
            \/ file[k] \in UnknownKeyLines /\ current_section # "none")
        => (pc[Root] = "exited" /\ diag.line = <<k>>)

-----------------------------------------------------------------------------
(* Claims about startup *)

\* parse_args accepts the command line
ArgsAccepted == ~argv.help /\ ~argv.extra /\ (argv.config \/ home # NoHome)

\* parse_config has been called and has returned or ended the process
AfterParseConfig == ArgsAccepted /\ pc[Root] \notin {"parse_args", "parse_config"}

\* Nothing of the X setup has happened
NoXActivity ==
    /\ xkb_core = <<>>
    /\ ~eventMask
    /\ nrecv = 0
    /\ \A p \in Pids : xlog[p] = <<>>

\* C8: when the config file cannot be opened and no -c/--config argument was
\* given, parse_config returns the built-in defaults (delay 200, interval 20,
\* both hooks empty) and the program goes on to the X setup: it does not end
\* before XOpenDisplay.
C8_MissingDefaultConfigYieldsDefaults ==
    (AfterParseConfig /\ ~fileOpens /\ ~argv.config) =>
        /\ cfg.delay = 200 /\ cfg.interval = 20
        /\ cfg.on_connect = <<>> /\ cfg.on_disconnect = <<>>
        /\ cfg.on_enable = <<>> /\ cfg.on_disable = <<>>
        /\ pc[Root] = "exited" => display # "unopened"

\* the defaults are in use in the event loop
C8_Witness ==
    /\ ~fileOpens /\ ~argv.config
    /\ pc[Root] = "wait_event"
    /\ xkb_core = <<[op |-> "XkbSetAutoRepeatRate", dev |-> XkbUseCoreKbd,
                     delay |-> 200, interval |-> 20]>>

\* C9: when the config path was given with -c/--config and the file cannot be
\* opened, the process exits with code 1; no X connection is opened and no
\* repeat rate is ever applied.
C9_ExplicitConfigMissingExits1 ==
    (AfterParseConfig /\ ~fileOpens /\ argv.config) =>
        /\ pc[Root] = "exited" /\ status = "exit1"
        /\ diag.msg = "failed to open config file"
        /\ display = "unopened"
        /\ NoXActivity

\* the process has exited on the unopenable -c file
C9_Witness ==
    /\ ~fileOpens /\ argv.config /\ args.custom_config
    /\ pc[Root] = "exited" /\ status = "exit1"

\* C10: if the display cannot be opened or the input extension is absent, the
\* process exits with code 1 before any repeat rate is applied, any event
\* mask is selected, or any event is received.
C10_SetupErrorsExit1 ==
    (display = "null" \/ diag.msg = "no xinput extension") =>
        /\ pc[Root] = "exited" /\ status = "exit1"
        /\ NoXActivity

-----------------------------------------------------------------------------
(* Claims about the dispatcher *)

\* The hook names of each direction, in either revision
EnableHooks == {"on_connect", "on_enable"}
DisableHooks == {"on_disconnect", "on_disable"}

\* C2: hooks are direction-specific: for every transition and every
\* combination of empty and non-empty hook strings, the command run for an
\* enable transition is an enable hook and the command run for a disable
\* transition is a disable hook, in run_kbd_plug_script and in execute_script.
C2_HooksDirectionSpecific ==
    \A p \in Pids : \A k \in 1..Len(xlog[p]) :
        xlog[p][k].op = "run" =>
            xlog[p][k].hook \in
                (IF xlog[p][k].enabled THEN EnableHooks ELSE DisableHooks)

\* The record process p is working on
CurrentRecord(p) == proc[p].info[proc[p].idx]

\* The rate applications and hook runs in the log of process p
RateAndRuns(p) ==
    SelectSeq(xlog[p], LAMBDA e : e.op \in {"XkbSetAutoRepeatRate", "run"})

\* The command configured for a direction, and its name
HookOfDirection(enabled) ==
    IF variant = "current"
    THEN IF enabled THEN [hook |-> "on_connect", cmd |-> cfg.on_connect]
         ELSE [hook |-> "on_disconnect", cmd |-> cfg.on_disconnect]
    ELSE IF enabled THEN [hook |-> "on_enable", cmd |-> cfg.on_enable]
         ELSE [hook |-> "on_disable", cmd |-> cfg.on_disable]

\* The run of the hook of a direction for device dev, if its command is set
ExpectedRun(dev, enabled) ==
    IF HookOfDirection(enabled).cmd = <<>> THEN <<>>
    ELSE <<[op |-> "run", dev |-> dev, enabled |-> enabled,
            hook |-> HookOfDirection(enabled).hook]>>

\* C6: a slave-keyboard record with both the enabled and the disabled flag
\* causes exactly one repeat-rate application, then one run of the enable
\* hook, then one run of the disable hook, in that order, each hook run only
\* when its command is non-empty; no hook is run twice for the record.
C6_BothFlagsRateEnableDisable ==
    \A p \in Pids :
        (/\ pc[p] = "rec_next"
         /\ RecordTriggers(CurrentRecord(p), TRUE)
         /\ RecordTriggers(CurrentRecord(p), FALSE))
        => RateAndRuns(p) =
              <<[op |-> "XkbSetAutoRepeatRate",
                 dev |-> CurrentRecord(p).deviceid,
                 delay |-> cfg.delay, interval |-> cfg.interval]>>
              \o ExpectedRun(CurrentRecord(p).deviceid, TRUE)
              \o ExpectedRun(CurrentRecord(p).deviceid, FALSE)

\* The value of XINPUTID in the shell of child c is the decimal numeral of
\* the device id of the record its parent is working on
XInputIdSet(c) ==
    LET env == proc[c].env
    IN  /\ env # <<>>
        /\ \A k \in 1..Len(env) : IsDigit(env[k])
        /\ Len(env) > 1 => env[1] # "0"
        /\ DecValue(env) = CurrentRecord(proc[c].parent).deviceid

\* The root process has handled the enable flag of a record of device 7
Enabled7Handled ==
    /\ pc[Root] \in {"rec_disable", "waitpid"}
    /\ pc[Root] = "waitpid" => proc[Root].resume = "rec_disable"
    /\ CurrentRecord(Root).deviceid = 7
    /\ RecordTriggers(CurrentRecord(Root), TRUE)

\* Device 7 got delay 200 and interval 20, and the hook named h was started
\* for it; its shell, once it runs, has XINPUTID=7
Rate7AndHook(h) ==
    /\ RateAndRuns(Root) =
          <<[op |-> "XkbSetAutoRepeatRate", dev |-> 7,
             delay |-> 200, interval |-> 20],
            [op |-> "run", dev |-> 7, enabled |-> TRUE, hook |-> h]>>
    /\ \A c \in Pids :
          (pc[c] = "sh" /\ proc[c].parent = Root) => proc[c].env = <<"7">>

-----------------------------------------------------------------------------
(* Claims about the progress of the event loop *)

\* C3: script failures never abort the loop: after exec_script ends in a
\* non-zero child exit, a fork failure or a failure of the child to exec the
\* shell, the event loop of the process that received the event continues:
\* a process that waits in exec_script for its hook child eventually goes on
\* with the records of its event.
C3_LoopContinuesAfterScriptFailure ==
    \A p \in Pids : (pc[p] = "waitpid") ~> (pc[p] # "waitpid")

\* Event number n has just been received by the root process, and record i of
\* it is a slave keyboard that became enabled
Pending(n, i) ==
    /\ proc[Root].evno = n
    /\ pc[Root] = "rec_enable" /\ proc[Root].idx = 1
    /\ i <= Len(proc[Root].info)
    /\ RecordTriggers(proc[Root].info[i], TRUE)

\* The root process has called XkbSetAutoRepeatRate for record i of event n
\* with the configured delay and interval
Applied(n, i) ==
    /\ proc[Root].evno = n
    /\ proc[Root].idx = i
    /\ \E k \in 1..Len(xlog[Root]) :
          xlog[Root][k] = [op |-> "XkbSetAutoRepeatRate",
                           dev |-> proc[Root].info[i].deviceid,
                           delay |-> cfg.delay, interval |-> cfg.interval]

\* C1: every slave-keyboard record that becomes enabled gets the configured
\* repeat rate: each record with use = slave keyboard and the enabled flag
\* set, of an accepted hierarchy event, eventually leads to the call
\* XkbSetAutoRepeatRate(record.deviceid, cfg.delay, cfg.interval), provided
\* the hook children started for earlier transitions exit.
C1_EnabledKeyboardGetsRate ==
    \A n \in 1..MaxEvents : \A i \in 1..MaxInfo :
        Pending(n, i) ~> Applied(n, i)

\* the second record of an event has got its rate after the enable hook was
\* run for the first record
C1_Witness ==
    /\ \E n \in 1..MaxEvents : Applied(n, 2)
    /\ RecordTriggers(proc[Root].info[1], TRUE)
    /\ HookToRun(variant, cfg, TRUE).hook # "none"

-----------------------------------------------------------------------------
(* Claims about the event filter *)

\* An event of another type or opcode or event type, a hierarchy event whose
\* payload retrieval fails, or one without enabled/disabled flag
Discarded(e) ==
    \/ e.type # "GenericEvent"
    \/ e.extension # "XInputExtension"
    \/ e.evtype # "XI_HierarchyChanged"
    \/ ~e.dataok
    \/ ~(HasFlag(e.flags, XIDeviceEnabled) \/ HasFlag(e.flags, XIDeviceDisabled))

\* Process p receives an event in this step and the event is one to discard
ReceivesDiscarded(p) ==
    /\ pc[p] = "wait_event"
    /\ nrecv' = nrecv + 1
    /\ \A q \in Pids \ {p} : proc'[q] = proc[q]
    /\ proc'[p].event \in Events
    /\ Discarded(proc'[p].event)

\* C11: once the event loop has been entered the process never leaves it by
\* its own action, whatever events arrive; an event of another type or
\* opcode, a hierarchy event whose payload retrieval fails and an event
\* without enabled/disabled flag are discarded: no transition is dispatched,
\* nothing but the event buffer changes, and the process waits for the next
\* event.
C11_LoopNeverExitsAndDiscards ==
    [][/\ \A p \in Pids :
            pc[p] \in LoopPcs =>
                /\ pc'[p] \in LoopPcs
                /\ status' = "running"
       /\ \A p \in Pids :
            ReceivesDiscarded(p) =>
                /\ pc' = pc
                /\ xlog' = xlog
                /\ xkb_core' = xkb_core
                /\ cfg' = cfg
                /\ proc' = [proc EXCEPT ![p].event = proc'[p].event]
      ]_vars

\* the root process waits for the next event after two events, the last of
\* which was a hierarchy event whose payload could not be retrieved
C11_Witness ==
    /\ pc[Root] = "wait_event"
    /\ nrecv = 2
    /\ status = "running"
    /\ proc[Root].event.evtype = "XI_HierarchyChanged"
    /\ proc[Root].event.extension = "XInputExtension"
    /\ ~proc[Root].event.dataok

-----------------------------------------------------------------------------
(* Claims about the lines the parser skips *)

\* A line that is empty or holds white space only
Blank(l) == \A i \in 1..Len(l) : IsSpace(l[i])

\* A line that holds a comment only: white space, then '#'
CommentOnly(l) ==
    /\ PrefixLen(l, IsSpace) < Len(l)
    /\ l[PrefixLen(l, IsSpace) + 1] = "#"

\* parse_config reads line k of the file in this step
ReadsLine(k) == pc[Root] = "parse_line" /\ linenr = k - 1 /\ linenr' = k

\* C12: a comment-only line or a blank/all-whitespace line never changes
\* parser state: after it the current section and every config field are as
\* before, and parsing continues with the next line; only the line counter
\* advances.
C12_BlankOrCommentLineIsSkipped ==
    [][\A k \in 1..Len(file) :
          (ReadsLine(k) /\ (Blank(file[k]) \/ CommentOnly(file[k]))) =>
              /\ current_section' = current_section
              /\ cfg' = cfg
              /\ pc'[Root] = "parse_line"
              /\ status' = "running"
      ]_vars

-----------------------------------------------------------------------------
(* Claims about the parser as a function of the file *)

\* parse_config has read the whole file and returned cfg to main
ParseReturned == fileOpens /\ pc[Root] = "connect" /\ linenr = Len(file)

\* C13 as claimed: parsing is deterministic and idempotent, and its result
\* depends only on the file content: whenever parse_config returns a config
\* for a file, every parse of the same lines from a fresh parser state, in
\* whatever environment, returns the same config.
C13_ResultDependsOnlyOnFile ==
    ParseReturned =>
        \A h \in HomeDirs :
            parse_config(variant, h, file) = {[kind |-> "returned", cfg |-> cfg]}

\* C13 as amended: parsing is deterministic and idempotent, and its result
\* depends only on the file content and on the value of HOME: whenever
\* parse_config returns a config for a file, every parse of the same lines
\* from a fresh parser state with the same HOME returns the same config.
C13_ResultDependsOnFileAndHome ==
    ParseReturned =>
        parse_config(variant, home, file) = {[kind |-> "returned", cfg |-> cfg]}

\* a file whose hook starts with `~` has been parsed with HOME set
C13_Witness ==
    /\ ParseReturned
    /\ variant = "scripts" /\ home # NoHome
    /\ Len(file) = 3 /\ file[3] = Kv(s_on_enable, s_tilde_e)
    /\ cfg.on_enable = s_home \o <<"/", "e">>

-----------------------------------------------------------------------------
(* Claims about the repeat rate *)

\* The call XkbSetAutoRepeatRate(display, dev, cfg.delay, cfg.interval)
RateCall(dev) ==
    [op |-> "XkbSetAutoRepeatRate", dev |-> dev,
     delay |-> cfg.delay, interval |-> cfg.interval]

\* C14: startup normalization: on every run that reaches the event loop the
\* repeat rate (cfg.delay, cfg.interval) is applied to the core keyboard
\* exactly once, whatever the config holds, before the first event is
\* received, and the startup path never targets the core keyboard again.
C14_CoreKeyboardRateOnceAtStartup ==
    /\ pc[Root] \in LoopPcs => xkb_core = <<RateCall(XkbUseCoreKbd)>>
    /\ nrecv > 0 => xkb_core = <<RateCall(XkbUseCoreKbd)>>
    /\ pc[Root] \notin (LoopPcs \cup {"exited"}) => xkb_core = <<>> /\ nrecv = 0

\* the loop is waiting for its first event with a delay read from the file
C14_Witness ==
    /\ pc[Root] = "wait_event" /\ nrecv = 0
    /\ cfg.delay = 300
    /\ xkb_core = <<[op |-> "XkbSetAutoRepeatRate", dev |-> XkbUseCoreKbd,
                     delay |-> 300, interval |-> 20]>>

-----------------------------------------------------------------------------
(* Claims about the processes *)

\* The processes that execute the event loop or the dispatcher
InLoop == {p \in Pids : pc[p] \in LoopPcs}

\* C15: no concurrent transitions are in flight: at every moment at most one
\* process executes the event loop or the dispatcher, and it is the process
\* that main started; a child that exec_script created becomes the shell
\* command or ends, and on no path, a failed execlp included, returns into
\* run_kbd_plug_script or the event loop.
C15_OnlyRootRunsTheLoop ==
    /\ Cardinality(InLoop) <= 1
    /\ InLoop \subseteq {Root}

\* The children that exec_script or system() created and that have not ended
LiveChildren == {c \in Pids \ {Root} : pc[c] \notin {"free", "zombie"}}

\* C16: spawning is synchronous and transitions are handled in payload order:
\* while a hook child has not exited no process goes on in the loop or the
\* dispatcher: no further record is processed, no event is received, no
\* repeat rate is applied and no hook is started; and within one event a
\* process handles the records of the payload one after the other in index
\* order.
C16_SpawnIsSynchronousInOrder ==
    [][/\ LiveChildren # {} =>
            /\ nrecv' = nrecv
            /\ xkb_core' = xkb_core
            /\ \A p \in Pids :
                  pc[p] \in LoopPcs =>
                      /\ pc'[p] = pc[p]
                      /\ xlog'[p] = xlog[p]
                      /\ proc'[p].idx = proc[p].idx
       /\ \A p \in Pids :
            (/\ pc[p] \in LoopPcs /\ pc'[p] \in LoopPcs
             /\ proc[p].evno # 0 /\ proc'[p].evno = proc[p].evno) =>
                /\ proc'[p].info = proc[p].info
                /\ proc'[p].idx \in {proc[p].idx, proc[p].idx + 1}
                /\ proc'[p].idx = proc[p].idx + 1 => pc[p] = "rec_next"
      ]_vars

-----------------------------------------------------------------------------
(* Claims about what the dispatcher is called for *)

\* The direction handle_keyboard_plug was called with for log entry e: a
\* repeat-rate call is made for enabled = true only
DirectionOf(e) == IF e.op = "run" THEN e.enabled ELSE TRUE

\* Event ev is a generic event of the input extension of type hierarchy
\* changed, with its payload retrieved and an enabled or disabled flag
AcceptedEvent(ev) ==
    /\ ev.type = "GenericEvent"
    /\ ev.extension = "XInputExtension"
    /\ ev.evtype = "XI_HierarchyChanged"
    /\ ev.dataok
    /\ (HasFlag(ev.flags, XIDeviceEnabled) \/ HasFlag(ev.flags, XIDeviceDisabled))

\* C17: the dispatcher is invoked only for accepted transitions: every
\* repeat-rate call and every hook run of a process belongs to an event that
\* is a generic event of the input extension of type hierarchy changed, with
\* its payload retrieved and an enabled or disabled flag, and to a record of
\* that event with the id of the call, use = slave keyboard and the flag of
\* the direction set; records of another device class cause neither.
C17_DispatchOnlyForAcceptedTransitions ==
    \A p \in Pids : \A k \in 1..Len(xlog[p]) :
        xlog[p][k].op \in {"XkbSetAutoRepeatRate", "run"} =>
            /\ AcceptedEvent(proc[p].event)
            /\ \E i \in 1..Len(proc[p].event.info) :
                  LET r == proc[p].event.info[i]
                  IN  /\ r.deviceid = xlog[p][k].dev
                      /\ r.use = "XISlaveKeyboard"
                      /\ HasFlag(r.flags, IF DirectionOf(xlog[p][k])
                                          THEN XIDeviceEnabled
                                          ELSE XIDeviceDisabled)

\* a pointer record was passed over and the keyboard record after it got its
\* repeat rate
C17_Witness ==
    /\ Len(proc[Root].info) = 2
    /\ proc[Root].info[1].use = "XISlavePointer"
    /\ proc[Root].idx = 2
    /\ pc[Root] = "rec_disable"
    /\ xlog[Root] # <<>>
    /\ xlog[Root][1] = RateCall(proc[Root].info[2].deviceid)

-----------------------------------------------------------------------------
(* Claims about fatal configuration errors *)

\* The key = value lines of the generated files
KeyValueLines ==
    {Kv(s_delay, <<"3", "0", "0">>), Kv(s_rate, <<"7">>),
     Kv(s_rate, <<"1", "0", "0">>), Kv(s_on_connect, s_c),
     Kv(s_on_enable, s_tilde_e), Kv(s_foo, <<"1">>)}

\* A line that is no comment, no blank line, no section and no key = value
NoFormLines == {<<"j", "u", "n", "k">>}

\* Line k, the last line read, is a fatal configuration error
FatalLine(k) ==
    \/ file[k] \in UnknownSectionLines
    \/ file[k] \in UnknownKeyLines /\ current_section # "none"
    \/ file[k] \in KeyValueLines /\ current_section = "none"
    \/ file[k] \in NoFormLines

\* C18: every fatal configuration error ends the process with exit code 1
\* before any X connection is made: an unknown section name, an unknown key
\* inside a known section, a key = value line while no section is open and a
\* line of none of the accepted forms lead to exit status 1, never to
\* another way of termination and never to silent acceptance.
C18_FatalConfigErrorsExit1 ==
    \A k \in 1..Len(file) :
        (JustRead(k) /\ FatalLine(k)) =>
            /\ pc[Root] = "exited"
            /\ status = "exit1"
            /\ display = "unopened"

-----------------------------------------------------------------------------
(* Claims about comment stripping *)

\* Well-formed section lines and key = value lines
WellFormedLines ==
    {Section(s_keyboard), Section(s_scripts)} \cup (KeyValueLines \ UnknownKeyLines)

\* C19: comment stripping is transparent: for every well-formed section line
\* or key = value line L, the line L followed by spaces and a `# comment`,
\* and likewise L followed by trailing spaces only, is accepted and has the
\* same effect on the section and on the config as L alone, in the current
\* parser and in the scripts variant.
C19_TrailingCommentIsTransparent ==
    [][\A k \in 1..Len(file) :
         \A L \in WellFormedLines :
           \A d \in {s_trailing_comment, s_trailing_spaces} :
             (ReadsLine(k) /\ file[k] = L \o d) =>
                \E o \in ParseLineOutcomes(variant, home, current_section,
                                           cfg, k, L) :
                    /\ current_section' = o.section
                    /\ cfg' = o.cfg
                    /\ o.kind = "continue" =>
                          pc'[Root] = "parse_line" /\ status' = "running"
      ]_vars

-----------------------------------------------------------------------------
(* Claims about when the repeat rate is applied *)

\* Every repeat-rate call in a log is for the record its process is working
\* on, that record has the enabled flag, and the call passes cfg.delay and
\* cfg.interval; the calls on the core keyboard are the one of the startup
RateCallsOnEnable ==
    /\ \A p \in Pids : \A k \in 1..Len(xlog[p]) :
          xlog[p][k].op = "XkbSetAutoRepeatRate" =>
              /\ xlog[p][k] = RateCall(CurrentRecord(p).deviceid)
              /\ HasFlag(CurrentRecord(p).flags, XIDeviceEnabled)
    /\ \A k \in 1..Len(xkb_core) : xkb_core[k] = RateCall(XkbUseCoreKbd)
    /\ Len(xkb_core) <= 1

\* C20: the repeat rate is applied only on enable: XkbSetAutoRepeatRate is
\* called only by the startup normalization and for transitions of a record
\* with the enabled flag; a record that carries only the disabled flag never
\* causes a repeat-rate call; every call uses the delay and the interval of
\* the config parsed at startup, which the loop and the dispatcher never
\* modify.
C20_RateOnlyOnEnableWithParsedConfig ==
    [][/\ RateCallsOnEnable'
       /\ pc[Root] \notin {"parse_args", "parse_config", "parse_line"} =>
             cfg' = cfg
      ]_vars

\* a record with the disabled flag only has been handled: its hook was run
\* and no repeat rate was applied
C20_Witness ==
    /\ pc[Root] = "rec_next"
    /\ CurrentRecord(Root).flags = XIDeviceDisabled
    /\ CurrentRecord(Root).use = "XISlaveKeyboard"
    /\ \E k \in 1..Len(xlog[Root]) : xlog[Root][k].op = "run"
    /\ \A k \in 1..Len(xlog[Root]) : xlog[Root][k].op # "XkbSetAutoRepeatRate"

-----------------------------------------------------------------------------
(* Claims about the effect of one key = value entry *)

\* Line l is `key = v` with a value v that holds no space and no '#'
EntryOf(l, key) ==
    LET n == Len(Kv(key, <<>>))
    IN  /\ Len(l) > n
        /\ SubSeq(l, 1, n) = Kv(key, <<>>)
        /\ \A i \in (n + 1)..Len(l) : l[i] \notin {" ", "#"}

\* The value of the entry l of `key`
ValueOf(l, key) == Drop(l, Len(Kv(key, <<>>)))

\* The value is a run of digits
Numeric(v) == \A i \in 1..Len(v) : IsDigit(v[i])

\* The hook keys the parser of revision v assigns, with the section they
\* belong to and the field they set
HookKeys(v) ==
    IF v = "current"
    THEN {[key |-> s_on_connect, section |-> "keyboard",
           field |-> "on_connect"],
          [key |-> s_on_disconnect, section |-> "keyboard",
           field |-> "on_disconnect"]}
    ELSE {[key |-> s_on_enable, section |-> "scripts",
           field |-> "on_enable"],
          [key |-> s_on_disable, section |-> "scripts",
           field |-> "on_disable"]}

\* This step goes on to the next line and changes neither the current
\* section nor any field of the config but `own`
OnlyFieldChanges(own) ==
    /\ pc'[Root] = "parse_line"
    /\ status' = "running"
    /\ current_section' = current_section
    /\ \A f \in (DOMAIN cfg) \ {own} : cfg'[f] = cfg[f]

\* C21: each accepted key assignment changes only its own field, and the
\* last assignment wins: a `rate` entry in [keyboard] overwrites interval
\* with the value derived from the rate, whatever interval held before, and
\* leaves delay and the hooks unchanged; a `delay` entry changes only delay,
\* to its value; a hook entry in its section changes only that hook, to its
\* value; none of them changes the current section.
C21_EntryChangesOnlyItsField ==
    [][\A k \in 1..Len(file) :
         ReadsLine(k) =>
           LET l == file[k]
           IN  /\ (/\ EntryOf(l, s_rate)
                   /\ Numeric(ValueOf(l, s_rate))
                   /\ DecValue(ValueOf(l, s_rate)) > 0
                   /\ current_section = "keyboard") =>
                      /\ OnlyFieldChanges("interval")
                      /\ cfg'.interval \in
                            IntervalOfRate(DecValue(ValueOf(l, s_rate)))
               /\ (/\ EntryOf(l, s_delay)
                   /\ Numeric(ValueOf(l, s_delay))
                   /\ current_section = "keyboard") =>
                      /\ OnlyFieldChanges("delay")
                      /\ cfg'.delay = DecValue(ValueOf(l, s_delay))
               /\ \A h \in HookKeys(variant) :
                    (EntryOf(l, h.key) /\ current_section = h.section) =>
                      /\ OnlyFieldChanges(h.field)
                      /\ cfg'[h.field] =
                            IF variant = "current" THEN ValueOf(l, h.key)
                            ELSE expandTilde(ValueOf(l, h.key), home)
      ]_vars

\* `[keyboard]`, `rate = 7`, `rate = 100` has been read: the interval is the
\* one of the last rate, the delay is still the default
C21_Witness ==
    /\ fileOpens
    /\ file = <<Section(s_keyboard), Kv(s_rate, <<"7">>),
                Kv(s_rate, <<"1", "0", "0">>)>>
    /\ pc[Root] = "parse_line"
    /\ linenr = 3
    /\ cfg = [DefaultConfig EXCEPT !.interval = 10]

-----------------------------------------------------------------------------
(* Claims about malformed values *)

\* Line l is a `delay` or `rate` entry whose value is no unsigned integer, or
\* a `rate` entry of 0
MalformedValue(l) ==
    \/ EntryOf(l, s_delay) /\ ~Numeric(ValueOf(l, s_delay))
    \/ /\ EntryOf(l, s_rate)
       /\ \/ ~Numeric(ValueOf(l, s_rate))
          \/ DecValue(ValueOf(l, s_rate)) = 0

\* C22: a malformed value is a malformed line: after a `delay` or `rate`
\* entry of [keyboard] whose value is not an unsigned integer, or a `rate` of
\* 0, has been read, the process has terminated with a report that names the
\* line; parsing never goes on with a config whose delay or interval was set
\* from the failed conversion.
C22_MalformedValueTerminates ==
    \A k \in 1..Len(file) :
        (/\ JustRead(k)
         /\ MalformedValue(file[k])
         /\ current_section = "keyboard") =>
            /\ pc[Root] = "exited"
            /\ status # "running"
            /\ diag.line = <<k>>

====
